---- MODULE Spec2Model ----
(***************************************************************************)
(* The computed properties of src/.vuepress/theme/NavLinks.vue: userNav,   *)
(* nav, userLinks, repoLink and repoLabel.                                 *)
(*                                                                         *)
(* JavaScript values are represented as follows.                           *)
(*  - An optional value is a sequence of length 0 (undefined) or 1.        *)
(*  - A string the code searches or rewrites (a path, a repository         *)
(*    reference) is a sequence of one-character strings; a string the code *)
(*    only tests and copies (a label, a language tag) is a TLA+ string.    *)
(*  - The evaluation of a computed property is a record with a status      *)
(*    ("pending" before its first evaluation, "returned", or "threw" when  *)
(*    the evaluation ends with a TypeError) and an optional value.         *)
(***************************************************************************)
EXTENDS Integers, Sequences, FiniteSets, TLC

VARIABLES
    site,               \* this.$site: locales and themeConfig
    themeLocaleConfig,  \* this.$themeLocaleConfig: selectText and nav
    localeConfig,       \* this.$localeConfig: path of the current locale
    page,               \* this.$page: path of the current page
    lang,               \* this.$lang
    routes,             \* this.$router.options.routes, as the set of their paths
    nav,                \* the computed property nav
    userLinks,          \* the computed property userLinks
    repoLink,           \* the computed property repoLink
    repoLabel,          \* the computed property repoLabel
    shared              \* the computed properties whose value is an array of
                        \* the configuration itself, not a new array

vars == <<site, themeLocaleConfig, localeConfig, page, lang, routes,
          nav, userLinks, repoLink, repoLabel, shared>>

inputs == <<site, themeLocaleConfig, localeConfig, page, lang, routes>>

----------------------------------------------------------------------------
(* Bounds of the model.                                                    *)

MaxLocales == 3     \* entries of the locales mapping
MaxNav == 2         \* records of a raw navigation configuration

----------------------------------------------------------------------------
(* JavaScript values.                                                      *)

Undefined == <<>>
Some(v) == <<v>>
IsDefined(o) == Len(o) > 0

\* The truth value JavaScript gives an optional string: undefined and the
\* empty string are falsy. Truthy is for sequences of characters, TruthyText
\* for TLA+ strings.
Truthy(o) == Len(o) > 0 /\ Len(o[1]) > 0
TruthyText(o) == Len(o) > 0 /\ o[1] /= ""

Pending == [status |-> "pending", value |-> Undefined]
Returned(v) == [status |-> "returned", value |-> v]
Threw == [status |-> "threw", value |-> Undefined]

----------------------------------------------------------------------------
(* Strings as sequences of characters.                                     *)

StartsWith(s, p) == Len(p) <= Len(s) /\ SubSeq(s, 1, Len(p)) = p

\* String.prototype.indexOf, 1-based; 0 when p does not occur in s.
IndexOf(s, p) ==
    LET at == {i \in 1..(Len(s) - Len(p) + 1) : SubSeq(s, i, i + Len(p) - 1) = p}
    IN IF at = {} THEN 0 ELSE CHOOSE i \in at : \A j \in at : i <= j

UpperCase == <<"A","B","C","D","E","F","G","H","I","J","K","L","M",
               "N","O","P","Q","R","S","T","U","V","W","X","Y","Z">>
LowerCase == <<"a","b","c","d","e","f","g","h","i","j","k","l","m",
               "n","o","p","q","r","s","t","u","v","w","x","y","z">>

LowerChar(c) ==
    IF \E i \in 1..26 : UpperCase[i] = c
    THEN LowerCase[CHOOSE i \in 1..26 : UpperCase[i] = c]
    ELSE c

ToLower(s) == [i \in 1..Len(s) |-> LowerChar(s[i])]

\* new RegExp(word, 'i').test(s), word made of letters only.
RegExpTestI(word, s) == IndexOf(ToLower(s), ToLower(word)) > 0

----------------------------------------------------------------------------
(* repoLink and repoLabel.                                                 *)

HttpColon == <<"h","t","t","p",":">>
HttpsColon == <<"h","t","t","p","s",":">>
GithubPrefix == <<"h","t","t","p","s",":","/","/","g","i","t","h","u","b",
                  ".","c","o","m","/">>

\* /^https?:/.test(s)
IsHttpRef(s) == StartsWith(s, HttpColon) \/ StartsWith(s, HttpsColon)

\* The body of repoLink for themeConfig.repo = repo.
RepoLinkAlwaysGithub(repo) ==
    IF Truthy(repo)
    THEN Some(GithubPrefix \o repo[1])
    ELSE Undefined

RepoLinkOf(repo) ==
    IF Truthy(repo)
    THEN IF IsHttpRef(repo[1]) THEN repo ELSE Some(GithubPrefix \o repo[1])
    ELSE Undefined

\* s.match(/^https?:\/\/[^/]+/): the optional match[0], undefined for null.
MatchOrigin(s) ==
    LET scheme == IF StartsWith(s, HttpsColon \o <<"/","/">>) THEN Len(HttpsColon) + 2
                  ELSE IF StartsWith(s, HttpColon \o <<"/","/">>) THEN Len(HttpColon) + 2
                  ELSE 0
        stop == {i \in (scheme + 1)..Len(s) : s[i] = "/"}
        last == IF stop = {} THEN Len(s)
                ELSE (CHOOSE i \in stop : \A j \in stop : i <= j) - 1
    IN IF scheme = 0 \/ last <= scheme THEN Undefined
       ELSE Some(SubSeq(s, 1, last))

platforms == << <<"G","i","t","H","u","b">>,
                <<"G","i","t","L","a","b">>,
                <<"B","i","t","b","u","c","k","e","t">> >>

SourceLabel == <<"S","o","u","r","c","e">>

\* The for loop of repoLabel from index i on.
RECURSIVE PlatformFrom(_, _)
PlatformFrom(i, repoHost) ==
    IF i > Len(platforms) THEN SourceLabel
    ELSE IF RegExpTestI(platforms[i], repoHost) THEN platforms[i]
    ELSE PlatformFrom(i + 1, repoHost)

\* The body of repoLabel, given the value of this.repoLink and
\* themeConfig.repoLabel; reading [0] of a null match throws a TypeError.
RepoLabelOf(link, label) ==
    IF ~Truthy(link) THEN Returned(Undefined)
    ELSE IF Truthy(label) THEN Returned(label)
    ELSE LET m == MatchOrigin(link[1])
         IN IF ~IsDefined(m) THEN Threw
            ELSE Returned(Some(PlatformFrom(1, m[1])))

\* Repository references: scheme, slashes, host and path put together, so
\* that full URLs, short identifiers and malformed references all occur.
RepoSchemes == {<<>>, HttpColon, HttpsColon, <<"H","T","T","P",":">>}
RepoSlashes == {<<>>, <<"/">>, <<"/","/">>}
RepoHosts == {<<>>,
              <<"a","c","m","e">>,
              <<"g","i","t","h","u","b",".","c","o","m">>,
              <<"G","i","t","L","a","b",".","c","o","m">>,
              <<"b","i","t","b","u","c","k","e","t",".","o","r","g">>,
              <<"e","x",".","c","o","m">>,
              <<"g","i","t","l","a","b",".","g","i","t","h","u","b",".","i","o">>}
RepoPaths == {<<>>, <<"/","x">>, <<"/","g","i","t","l","a","b">>}

RepoRefs ==
    {Undefined} \cup
    {Some(s \o sl \o h \o p) :
        s \in RepoSchemes, sl \in RepoSlashes, h \in RepoHosts, p \in RepoPaths}

RepoLabels == {Undefined, Some(<<>>), Some(<<"M","y","R","e","p","o">>)}

----------------------------------------------------------------------------
(* String.prototype.replace with a string pattern.                         *)

\* GetSubstitution for a string pattern (no capture groups): in the
\* replacement, $$ is a dollar sign, $& the matched text, $` the text before
\* the match and $' the text after it; any other $ stands for itself.
RECURSIVE Substitution(_, _, _, _, _)
Substitution(r, i, matched, before, after) ==
    IF i > Len(r) THEN <<>>
    ELSE IF r[i] = "$" /\ i < Len(r) /\ r[i + 1] \in {"$", "&", "`", "'"}
    THEN (CASE r[i + 1] = "$" -> <<"$">>
            [] r[i + 1] = "&" -> matched
            [] r[i + 1] = "`" -> before
            [] r[i + 1] = "'" -> after)
         \o Substitution(r, i + 2, matched, before, after)
    ELSE <<r[i]>> \o Substitution(r, i + 1, matched, before, after)

\* s.replace(pattern, replacement): the first occurrence only.
Replace(s, pattern, replacement) ==
    LET pos == IndexOf(s, pattern)
    IN IF pos = 0 THEN s
       ELSE LET before == SubSeq(s, 1, pos - 1)
                after == SubSeq(s, pos + Len(pattern), Len(s))
            IN before \o Substitution(replacement, 1, pattern, before, after) \o after

----------------------------------------------------------------------------
(* userNav, nav and userLinks.                                             *)

\* A navigation record: { text, link, items, type }, each field optional.
Item(text, link, items) ==
    [text |-> text, link |-> link, items |-> items, type |-> Undefined]

\* this.$themeLocaleConfig.nav || this.$site.themeConfig.nav || []
\* (an array is truthy, also when empty).
UserNavOf(tlc, s) ==
    IF IsDefined(tlc.nav) THEN tlc.nav[1]
    ELSE IF IsDefined(s.themeConfig.nav) THEN s.themeConfig.nav[1]
    ELSE <<>>

\* locales && Object.keys(locales).length > 1
MultiLocaleFromOne(s) == IsDefined(s.locales) /\ Len(s.locales[1]) >= 1

MultiLocale(s) == IsDefined(s.locales) /\ Len(s.locales[1]) > 1

\* themeLocales[path] && themeLocales[path].label, with
\* themeLocales = this.$site.themeConfig.locales || {}.
ThemeLabel(s, path) ==
    LET themeLocales == IF IsDefined(s.themeConfig.locales)
                        THEN s.themeConfig.locales[1] ELSE <<>>
    IN IF path \in DOMAIN themeLocales THEN themeLocales[path].label ELSE Undefined

\* The text of a locale's item: label || locale.lang.
LocaleTextLangOnly(s, locale) == locale.lang

LocaleText(s, locale) ==
    IF TruthyText(ThemeLabel(s, locale.path)) THEN ThemeLabel(s, locale.path)
    ELSE locale.lang

\* The link of a locale's item.
LocaleLinkAlwaysRewrites(locale, currentLink, currentLang, localePath, routePaths) ==
    LET link == Replace(currentLink, localePath, locale.path)
    IN IF link \in routePaths THEN link ELSE locale.path

LocaleLink(locale, currentLink, currentLang, localePath, routePaths) ==
    IF locale.lang = Some(currentLang) THEN currentLink
    ELSE LET link == Replace(currentLink, localePath, locale.path)
         IN IF link \in routePaths THEN link ELSE locale.path

\* The text of the languageDropdown object:
\* this.$themeLocaleConfig.selectText || 'Languages'.
SwitcherTextAlwaysDefault(tlc) == Some("Languages")

SwitcherText(tlc) ==
    IF TruthyText(tlc.selectText) THEN tlc.selectText ELSE Some("Languages")

\* The languageDropdown object: one item per key of locales, in the order
\* of Object.keys (the keys are paths, so their insertion order).
LanguageDropdown(s, tlc, lc, pg, lg, rts) ==
    LET locales == s.locales[1]
    IN Item(SwitcherText(tlc),
            Undefined,
            Some([i \in 1..Len(locales) |->
                    Item(LocaleText(s, locales[i]),
                         Some(LocaleLink(locales[i], pg.path, lg, lc.path, rts)),
                         Undefined)]))

\* The body of nav.
NavOfSwitcherFirst(s, tlc, lc, pg, lg, rts) ==
    IF MultiLocale(s)
    THEN <<LanguageDropdown(s, tlc, lc, pg, lg, rts)>> \o UserNavOf(tlc, s)
    ELSE UserNavOf(tlc, s)

NavOf(s, tlc, lc, pg, lg, rts) ==
    IF MultiLocale(s)
    THEN UserNavOf(tlc, s) \o <<LanguageDropdown(s, tlc, lc, pg, lg, rts)>>
    ELSE UserNavOf(tlc, s)

\* resolveNavLinkItem of ./util: tags a record with its kind, 'links' for a
\* dropdown (a record that carries items) and 'link' for a plain link, and
\* gives a record with neither link nor items an empty target.
resolveNavLinkItem(r) ==
    [r EXCEPT !.type = Some(IF IsDefined(r.items) THEN "links" ELSE "link"),
              !.link = IF ~IsDefined(r.items) /\ ~IsDefined(r.link)
                       THEN Some(<<>>) ELSE @]

\* The body of userLinks for this.nav = links.
UserLinksSkipsBare(links) ==
    LET kept == SelectSeq(links, LAMBDA r : IsDefined(r.items) \/ IsDefined(r.link))
    IN [i \in 1..Len(kept) |->
           LET children == IF IsDefined(kept[i].items) THEN kept[i].items[1] ELSE <<>>
           IN [resolveNavLinkItem(kept[i]) EXCEPT
                  !.items = Some([j \in 1..Len(children) |->
                                    resolveNavLinkItem(children[j])])]]

UserLinksOf(links) ==
    [i \in 1..Len(links) |->
        LET children == IF IsDefined(links[i].items) THEN links[i].items[1] ELSE <<>>
        IN [resolveNavLinkItem(links[i]) EXCEPT
               !.items = Some([j \in 1..Len(children) |->
                                 resolveNavLinkItem(children[j])])]]

----------------------------------------------------------------------------
(* What nav and userLinks do to the objects of the configuration. Arrays   *)
(* and records are JavaScript objects: the array userNav returns is the    *)
(* nav array of the configuration (unless it is the literal []), and the   *)
(* records of this.nav are the records of that array.                      *)

\* The array userNav returns is an array of the configuration.
UserNavIsConfigured(tlc, s) == IsDefined(tlc.nav) \/ IsDefined(s.themeConfig.nav)

\* The configuration in which the array userNav returns holds list.
WithUserNav(tlc, s, list) ==
    IF IsDefined(tlc.nav)
    THEN [themeLocaleConfig |-> [tlc EXCEPT !.nav = Some(list)], site |-> s]
    ELSE IF IsDefined(s.themeConfig.nav)
    THEN [themeLocaleConfig |-> tlc, site |-> [s EXCEPT !.themeConfig.nav = Some(list)]]
    ELSE [themeLocaleConfig |-> tlc, site |-> s]

\* What the array userNav returned holds after nav: [...this.userNav,
\* languageDropdown] copies it, so it holds what it held.
UserNavAfterNavPushes(s, tlc, lc, pg, lg, rts) == NavOf(s, tlc, lc, pg, lg, rts)

UserNavAfterNav(s, tlc, lc, pg, lg, rts) == UserNavOf(tlc, s)

\* nav returns the array of the configuration itself: return this.userNav.
NavIsUserNav(s, tlc) == ~MultiLocale(s) /\ UserNavIsConfigured(tlc, s)

\* What the records of this.nav hold after userLinks: map builds a new
\* array, and Object.assign writes items onto the entry resolveNavLinkItem
\* returned, a new entry, so the records hold what they held.
RecordsAfterUserLinksAssigned(links) == UserLinksOf(links)

RecordsAfterUserLinks(links) == links

\* The configuration after nav, and after nav followed by userLinks (the
\* records of this.nav but the language switcher are those of userNav).
ConfigAfterNav(s, tlc, lc, pg, lg, rts) ==
    WithUserNav(tlc, s, UserNavAfterNav(s, tlc, lc, pg, lg, rts))

ConfigAfterUserLinks(s, tlc, lc, pg, lg, rts) ==
    LET c == ConfigAfterNav(s, tlc, lc, pg, lg, rts)
        base == UserNavOf(c.themeLocaleConfig, c.site)
    IN WithUserNav(c.themeLocaleConfig, c.site, RecordsAfterUserLinks(base))

----------------------------------------------------------------------------
(* Initial states and steps.                                               *)

\* The configured locales the model draws from: a root locale, two
\* prefixed locales, one of which shares the root's language tag, and a
\* locale whose prefix holds a dollar sign.
RootPath == <<"/">>
LocaleCatalogue ==
    {[path |-> RootPath, lang |-> Some("en-US")],
     [path |-> <<"/","f","/">>, lang |-> Some("fr-FR")],
     [path |-> <<"/","e","/">>, lang |-> Some("en-US")],
     [path |-> <<"/","$","$","/">>, lang |-> Some("de-DE")]}

\* The locales mappings of at most n entries, as the sequence of their
\* entries in insertion order; no two entries share a path.
LocaleSeqs(n) ==
    UNION {{ls \in [1..k -> LocaleCatalogue] :
               \A i, j \in 1..k : i /= j => ls[i].path /= ls[j].path} : k \in 0..n}

\* themeConfig.locales: absent, or a mapping with a label for the root, an
\* empty label for /f/, an entry without label for /e/ and no entry else.
ThemeLocalesChoices ==
    {Undefined,
     Some((RootPath :> [label |-> Some("English")])
          @@ (<<"/","f","/">> :> [label |-> Some("")])
          @@ (<<"/","e","/">> :> [label |-> Undefined]))}

Langs == {"en-US", "fr-FR", "zz"}
SelectTexts == {Undefined, Some(""), Some("Select")}
Tails == {<<>>, <<"g">>}

\* Route tables: every page of every locale; the homepages only; the
\* homepages and the pages of / and /f/.
AllPrefixes == {l.path : l \in LocaleCatalogue}
RouteTables ==
    {{pre \o t : pre \in AllPrefixes, t \in Tails},
     AllPrefixes,
     AllPrefixes \cup {pre \o t : pre \in {RootPath, <<"/","f","/">>}, t \in Tails}}

\* Raw navigation records: a plain link, a group, a group without children,
\* a record with neither link nor items, a record with both, and a group
\* whose child is itself a group.
PlainRecord == Item(Some("Home"), Some(RootPath), Undefined)
GroupRecord ==
    Item(Some("Docs"), Undefined,
         Some(<<Item(Some("A"), Some(<<"/","a">>), Undefined),
                Item(Some("B"), Undefined, Undefined)>>))
NestedRecord ==
    Item(Some("Nest"), Undefined, Some(<<GroupRecord>>))
RawRecords ==
    {PlainRecord,
     GroupRecord,
     Item(Some("Empty"), Undefined, Some(<<>>)),
     Item(Some("Bare"), Undefined, Undefined),
     Item(Some("Both"), Some(<<"/","b">>), Some(<<PlainRecord>>)),
     NestedRecord}

RawNavs(n) == UNION {[1..k -> RawRecords] : k \in 0..n}

DefaultSite ==
    [locales |-> Undefined,
     themeConfig |-> [locales |-> Undefined, nav |-> Undefined,
                      repo |-> Undefined, repoLabel |-> Undefined]]

\* The repository reference and its label vary; the site has one locale.
InitRepo ==
    /\ \E r \in RepoRefs, l \in RepoLabels :
          site = [DefaultSite EXCEPT !.themeConfig.repo = r,
                                     !.themeConfig.repoLabel = l]
    /\ themeLocaleConfig = [selectText |-> Undefined, nav |-> Undefined]
    /\ localeConfig = [path |-> RootPath]
    /\ page = [path |-> RootPath]
    /\ lang = "en-US"
    /\ routes = {RootPath}

\* The locales, the current page and language and the route table vary.
\* The current locale's path is the root or the path of a configured locale,
\* and the current page's path begins with it and is a known route.
InitLocales ==
    /\ \E ls \in {Undefined} \cup {Some(x) : x \in LocaleSeqs(MaxLocales)},
          tl \in ThemeLocalesChoices :
          site = [DefaultSite EXCEPT !.locales = ls,
                                     !.themeConfig.locales = tl,
                                     !.themeConfig.nav = Some(<<PlainRecord, GroupRecord>>)]
    /\ themeLocaleConfig = [selectText |-> Undefined, nav |-> Undefined]
    /\ \E pre \in {RootPath} \cup
                 (IF IsDefined(site.locales)
                  THEN {site.locales[1][i].path : i \in 1..Len(site.locales[1])}
                  ELSE {}) :
          /\ localeConfig = [path |-> pre]
          /\ \E t \in Tails : page = [path |-> pre \o t]
    /\ lang \in Langs
    /\ \E rt \in RouteTables : routes = rt \cup {page.path}

\* The raw navigation configuration and the prompt of the language switcher
\* vary, on a site with no locales mapping, with an empty one, and with one,
\* two and three locales.
ThreeLocales ==
    <<[path |-> RootPath, lang |-> Some("en-US")],
      [path |-> <<"/","f","/">>, lang |-> Some("fr-FR")],
      [path |-> <<"/","e","/">>, lang |-> Some("en-US")]>>

InitNavs ==
    /\ \E ls \in {Undefined} \cup {Some(SubSeq(ThreeLocales, 1, k)) : k \in 0..3},
          n \in {Undefined, Some(<<>>), Some(<<PlainRecord>>)} :
          site = [DefaultSite EXCEPT !.locales = ls, !.themeConfig.nav = n]
    /\ \E n \in {Undefined} \cup {Some(x) : x \in RawNavs(MaxNav)},
          st \in SelectTexts :
          themeLocaleConfig = [selectText |-> st, nav |-> n]
    /\ localeConfig = [path |-> RootPath]
    /\ page = [path |-> <<"/","g">>]
    /\ lang = "en-US"
    /\ routes = {pre \o t : pre \in AllPrefixes, t \in Tails}

Init ==
    /\ InitRepo \/ InitLocales \/ InitNavs
    /\ nav = Pending
    /\ userLinks = Pending
    /\ repoLink = Pending
    /\ repoLabel = Pending
    /\ shared = {}

\* Vue evaluates the computed property nav (and userNav, which it reads).
ComputeNav ==
    /\ nav' = Returned(Some(NavOf(site, themeLocaleConfig, localeConfig, page,
                                  lang, routes)))
    /\ LET c == ConfigAfterNav(site, themeLocaleConfig, localeConfig, page,
                               lang, routes)
       IN site' = c.site /\ themeLocaleConfig' = c.themeLocaleConfig
    /\ shared' = IF NavIsUserNav(site, themeLocaleConfig)
                 THEN shared \cup {"nav"} ELSE shared \ {"nav"}
    /\ UNCHANGED <<localeConfig, page, lang, routes, userLinks, repoLink, repoLabel>>

\* Vue evaluates the computed property userLinks, which reads this.nav and
\* so evaluates nav first; map returns a new array.
ComputeUserLinks ==
    /\ nav' = Returned(Some(NavOf(site, themeLocaleConfig, localeConfig, page,
                                  lang, routes)))
    /\ userLinks' = Returned(Some(UserLinksOf(nav'.value[1])))
    /\ LET c == ConfigAfterUserLinks(site, themeLocaleConfig, localeConfig, page,
                                     lang, routes)
       IN site' = c.site /\ themeLocaleConfig' = c.themeLocaleConfig
    /\ shared' = IF NavIsUserNav(site, themeLocaleConfig)
                 THEN (shared \cup {"nav"}) \ {"userLinks"}
                 ELSE shared \ {"nav", "userLinks"}
    /\ UNCHANGED <<localeConfig, page, lang, routes, repoLink, repoLabel>>

\* Vue evaluates the computed property repoLink.
ComputeRepoLink ==
    /\ repoLink' = Returned(RepoLinkOf(site.themeConfig.repo))
    /\ UNCHANGED <<inputs, nav, userLinks, repoLabel, shared>>

\* Vue evaluates the computed property repoLabel, which reads this.repoLink
\* and so evaluates repoLink first.
ComputeRepoLabel ==
    /\ repoLink' = Returned(RepoLinkOf(site.themeConfig.repo))
    /\ repoLabel' = RepoLabelOf(repoLink'.value, site.themeConfig.repoLabel)
    /\ UNCHANGED <<inputs, nav, userLinks, shared>>

Next ==
    \/ ComputeNav
    \/ ComputeUserLinks
    \/ ComputeRepoLink
    \/ ComputeRepoLabel

Spec == Init /\ [][Next]_vars

----------------------------------------------------------------------------
(* The claims.                                                             *)

NavReturned == nav.status = "returned"
UserLinksReturned == userLinks.status = "returned"
LocalesOf == site.locales[1]
BaseLinks == UserNavOf(themeLocaleConfig, site)
NavList == nav.value[1]
UserLinksList == userLinks.value[1]
\* The language switcher, as nav appends it and as userLinks resolves it.
Switcher == NavList[Len(NavList)]
ResolvedSwitcher == UserLinksList[Len(UserLinksList)]

\* The path a locale's prefix gives the current page: the current locale's
\* prefix, with which the current path begins, replaced by the locale's.
SamePage(locale) ==
    locale.path \o SubSeq(page.path, Len(localeConfig.path) + 1, Len(page.path))

\* C1: for a locale whose language tag differs from the current one, the
\* switcher item's link is the current path with the current locale's prefix
\* replaced by the locale's prefix if that path is a known route, and the
\* locale's bare prefix otherwise.
C1_NonActiveLocaleLink ==
    (NavReturned /\ MultiLocale(site)) =>
        \A i \in 1..Len(LocalesOf) :
            LocalesOf[i].lang /= Some(lang) =>
                Switcher.items[1][i].link =
                    Some(IF SamePage(LocalesOf[i]) \in routes
                         THEN SamePage(LocalesOf[i]) ELSE LocalesOf[i].path)

\* The statement of C1 for the locales whose prefix holds no dollar sign.
NonActiveLocaleLinkWithoutDollar ==
    (NavReturned /\ MultiLocale(site)) =>
        \A i \in 1..Len(LocalesOf) :
            (/\ LocalesOf[i].lang /= Some(lang)
             /\ \A k \in 1..Len(LocalesOf[i].path) : LocalesOf[i].path[k] /= "$") =>
                Switcher.items[1][i].link =
                    Some(IF SamePage(LocalesOf[i]) \in routes
                         THEN SamePage(LocalesOf[i]) ELSE LocalesOf[i].path)

\* C2: for every locale whose language tag equals the current language tag,
\* the switcher item's link is the current path, whatever the route table
\* and the locale's prefix; the resolved switcher keeps that link.
C2_ActiveLocaleLink ==
    /\ (NavReturned /\ MultiLocale(site)) =>
          \A i \in 1..Len(LocalesOf) :
              LocalesOf[i].lang = Some(lang) =>
                  Switcher.items[1][i].link = Some(page.path)
    /\ (UserLinksReturned /\ MultiLocale(site)) =>
          \A i \in 1..Len(LocalesOf) :
              LocalesOf[i].lang = Some(lang) =>
                  ResolvedSwitcher.items[1][i].link = Some(page.path)

\* A locale other than the current one shares the current language tag, the
\* same page under its prefix is no known route, and its link is the
\* current path.
C2_Witness ==
    /\ NavReturned /\ MultiLocale(site)
    /\ \E i \in 1..Len(LocalesOf) :
          /\ LocalesOf[i].lang = Some(lang)
          /\ LocalesOf[i].path /= localeConfig.path
          /\ SamePage(LocalesOf[i]) \notin routes
          /\ Switcher.items[1][i].link = Some(page.path)

\* C3: with more than one locale the merged list is one longer than the
\* base list, begins with the base entries in their order, and ends with
\* the language switcher, which resolves to a dropdown.
C3_SwitcherAppended ==
    /\ (NavReturned /\ IsDefined(site.locales) /\ Len(LocalesOf) > 1) =>
          /\ Len(NavList) = Len(BaseLinks) + 1
          /\ SubSeq(NavList, 1, Len(BaseLinks)) = BaseLinks
          /\ IsDefined(Switcher.items)
          /\ Len(Switcher.items[1]) = Len(LocalesOf)
    /\ (UserLinksReturned /\ IsDefined(site.locales) /\ Len(LocalesOf) > 1) =>
          /\ Len(UserLinksList) = Len(BaseLinks) + 1
          /\ \A i \in 1..Len(BaseLinks) :
                UserLinksList[i].text = BaseLinks[i].text
          /\ ResolvedSwitcher.type = Some("links")
          /\ ResolvedSwitcher.text = Switcher.text

\* A base list of two records on a site of three locales, resolved.
C3_Witness ==
    /\ UserLinksReturned /\ IsDefined(site.locales) /\ Len(LocalesOf) = 3
    /\ Len(BaseLinks) = 2 /\ BaseLinks[1] /= BaseLinks[2]
    /\ Len(UserLinksList) = 3
    /\ ResolvedSwitcher.type = Some("links")

\* C4: with no locales mapping, or one of zero or one entries, the merged
\* list is the base list.
C4_SingleLocaleIdentity ==
    (NavReturned /\ (~IsDefined(site.locales) \/ Len(LocalesOf) <= 1)) =>
        NavList = BaseLinks

\* A site of exactly one locale with a base list of two records.
C4_Witness ==
    /\ NavReturned /\ IsDefined(site.locales) /\ Len(LocalesOf) = 1
    /\ Len(BaseLinks) = 2
    /\ NavList = BaseLinks

\* C5, as stated: the switcher has one item per locale, in the order of the
\* locales mapping, and an item's text is the locale's label when one is
\* configured and the locale's language tag otherwise.
C5_SwitcherItemsAnyLabel ==
    (NavReturned /\ MultiLocale(site)) =>
        /\ Len(Switcher.items[1]) = Len(LocalesOf)
        /\ \A i \in 1..Len(LocalesOf) :
              Switcher.items[1][i].text =
                  IF IsDefined(ThemeLabel(site, LocalesOf[i].path))
                  THEN ThemeLabel(site, LocalesOf[i].path)
                  ELSE LocalesOf[i].lang

\* C5, amended: the switcher has one item per locale, in the order of the
\* locales mapping, and an item's text is the locale's label when one is
\* configured and is not the empty string, and the locale's language tag
\* otherwise.
C5_SwitcherItems ==
    (NavReturned /\ MultiLocale(site)) =>
        /\ Len(Switcher.items[1]) = Len(LocalesOf)
        /\ \A i \in 1..Len(LocalesOf) :
              LET label == IF IsDefined(site.themeConfig.locales)
                              /\ LocalesOf[i].path \in DOMAIN site.themeConfig.locales[1]
                           THEN site.themeConfig.locales[1][LocalesOf[i].path].label
                           ELSE Undefined
              IN Switcher.items[1][i].text =
                     IF label /= Undefined /\ label /= Some("")
                     THEN label ELSE LocalesOf[i].lang

\* A switcher of three items: one shows a configured label, one the
\* language tag in place of an empty label, one the language tag of a
\* locale that has no label.
C5_Witness ==
    /\ NavReturned /\ MultiLocale(site) /\ Len(Switcher.items[1]) = 3
    /\ \E i, j, k \in 1..Len(LocalesOf) :
          /\ ThemeLabel(site, LocalesOf[i].path) = Some("English")
          /\ Switcher.items[1][i].text = Some("English")
          /\ ThemeLabel(site, LocalesOf[j].path) = Some("")
          /\ Switcher.items[1][j].text = Some("fr-FR")
          /\ ThemeLabel(site, LocalesOf[k].path) = Undefined
          /\ Switcher.items[1][k].text = LocalesOf[k].lang

\* C6: repoLink is absent for an absent or empty reference, the reference
\* itself when it begins with http: or https:, and https://github.com/
\* followed by the reference otherwise.
C6_RepoLink ==
    repoLink.status = "returned" =>
        LET repo == site.themeConfig.repo
            r == repo[1]
            http == Len(r) >= 5 /\ r[1] = "h" /\ r[2] = "t" /\ r[3] = "t"
                    /\ r[4] = "p" /\ r[5] = ":"
            https == Len(r) >= 6 /\ r[1] = "h" /\ r[2] = "t" /\ r[3] = "t"
                     /\ r[4] = "p" /\ r[5] = "s" /\ r[6] = ":"
        IN IF repo = Undefined \/ repo = Some(<<>>) THEN repoLink.value = Undefined
           ELSE IF http \/ https THEN repoLink.value = repo
           ELSE repoLink.value = Some(GithubPrefix \o r)

\* The link of a reference that begins with https: and lacks the slashes of
\* a URL is the reference itself.
C6_Witness ==
    /\ repoLink.status = "returned"
    /\ site.themeConfig.repo = Some(HttpsColon \o <<"e","x",".","c","o","m">>)
    /\ repoLink.value = site.themeConfig.repo

\* The origin of a link: its scheme and host, empty when the link has none.
OriginOf(link) == IF IsDefined(MatchOrigin(link)) THEN MatchOrigin(link)[1] ELSE <<>>

\* C7: repoLabel is absent when repoLink is absent; otherwise it is the
\* explicit label when one is provided; otherwise it is the first of GitHub,
\* GitLab and Bitbucket that occurs, whatever the case, in the link's
\* origin, and Source when none occurs. (An explicit label is taken here to
\* be a non-empty one; the code also passes over an empty label.)
C7_RepoLabel ==
    repoLabel.status /= "pending" =>
        LET link == repoLink.value
            label == site.themeConfig.repoLabel
            found == {i \in 1..Len(platforms) :
                         RegExpTestI(platforms[i], OriginOf(link[1]))}
        IN repoLabel =
              Returned(IF link = Undefined THEN Undefined
                       ELSE IF Truthy(label) THEN label
                       ELSE IF found = {} THEN Some(SourceLabel)
                       ELSE Some(platforms[CHOOSE i \in found : \A j \in found : i <= j]))

\* C8: computing repoLink and then repoLabel, with no explicit label, never
\* raises, whatever the repository reference.
C8_RepoLabelTotal ==
    /\ repoLink.status /= "threw"
    /\ ~IsDefined(site.themeConfig.repoLabel) => repoLabel.status /= "threw"

\* C9: userLinks does not raise and returns one entry per record of the
\* list it resolves, in the same order.
C9_OneEntryPerRecord ==
    /\ userLinks.status /= "threw"
    /\ UserLinksReturned =>
          /\ Len(UserLinksList) = Len(NavList)
          /\ \A i \in 1..Len(NavList) : UserLinksList[i].text = NavList[i].text

\* A list of two different records, the second with neither link nor
\* items, is resolved.
C9_Witness ==
    /\ UserLinksReturned
    /\ Len(NavList) = 2 /\ NavList[1] /= NavList[2]
    /\ ~IsDefined(NavList[2].link) /\ ~IsDefined(NavList[2].items)
    /\ Len(UserLinksList) = 2

\* C10: a record that carries items, of any length, resolves to a dropdown;
\* a record with a link and no items resolves to a plain link with empty
\* items; every child of a dropdown resolves to a plain link.
C10_ResolvedKinds ==
    UserLinksReturned =>
        \A i \in 1..Len(NavList) :
            /\ IsDefined(NavList[i].items) => UserLinksList[i].type = Some("links")
            /\ (IsDefined(NavList[i].link) /\ ~IsDefined(NavList[i].items)) =>
                  /\ UserLinksList[i].type = Some("link")
                  /\ UserLinksList[i].items = Some(<<>>)
            /\ UserLinksList[i].type = Some("links") =>
                  \A j \in 1..Len(UserLinksList[i].items[1]) :
                      UserLinksList[i].items[1][j].type = Some("link")

\* C11, as stated: the switcher's text is selectText whenever selectText is
\* provided, the empty string included, and 'Languages' only when it is
\* absent.
C11_SwitcherTextAnyProvided ==
    (NavReturned /\ MultiLocale(site)) =>
        Switcher.text = IF themeLocaleConfig.selectText /= Undefined
                        THEN themeLocaleConfig.selectText
                        ELSE Some("Languages")

\* C11, amended: the switcher's text is selectText whenever selectText is
\* provided and is not the empty string, and 'Languages' when it is absent
\* or the empty string; the resolved switcher keeps that text.
C11_SwitcherText ==
    LET text == IF themeLocaleConfig.selectText /= Undefined
                   /\ themeLocaleConfig.selectText /= Some("")
                THEN themeLocaleConfig.selectText
                ELSE Some("Languages")
    IN /\ (NavReturned /\ MultiLocale(site)) => Switcher.text = text
       /\ (UserLinksReturned /\ MultiLocale(site)) => ResolvedSwitcher.text = text

\* The switcher of a site whose selectText is the empty string reads
\* 'Languages'.
C11_Witness ==
    /\ NavReturned /\ MultiLocale(site)
    /\ themeLocaleConfig.selectText = Some("")
    /\ Switcher.text = Some("Languages")

====
